---- MODULE Spec2Model ----
(***************************************************************************)
(* NoteMate: the glossary pipeline of app/main.py and its cache in         *)
(* app/db.py.  Texts (PDF text, service replies, stored JSON payloads,     *)
(* page selectors) are sequences of one-character strings.                 *)
(***************************************************************************)
EXTENDS Integers, Sequences, FiniteSets, TLC

\* ------------------------------------------------------------ bounds
\* Glossary requests begun in one behaviour.
MaxRequests == 2
\* Last reading of the clock.
MaxClock == 1
\* Longest reply of the parser specification, counted in fragments.
MaxParts == 4
\* JSON nesting deeper than this stands for nesting beyond the interpreter's
\* recursion limit, where json.loads raises RecursionError.
MaxDepth == 3
\* The longest page selector of the selector specification.
MaxSelLen == 3
\* How far below and above the prompt's limit the extracted texts of the
\* prompt specification reach.
MaxExtra == 10

\* ------------------------------------------------------------ program constants
\* text.strip()[:500]
ContextLimit == 500
\* content[:12000]
PromptLimit == 12000

\* ------------------------------------------------------------ text helpers
Min(S) == CHOOSE x \in S : \A y \in S : x <= y
Max(S) == CHOOSE x \in S : \A y \in S : y <= x

\* The whitespace of the modelled alphabet (str.strip, the regex class \s and
\* JSON whitespace agree on these characters).
Whitespace == {" ", "\n", "\t", "\r"}

Take(s, n) == SubSeq(s, 1, IF Len(s) < n THEN Len(s) ELSE n)

\* str.strip()
Strip(s) ==
  LET keep == {i \in 1..Len(s) : s[i] \notin Whitespace}
  IN  IF keep = {} THEN <<>> ELSE SubSeq(s, Min(keep), Max(keep))

\* The first index >= i that holds no whitespace (Len(s)+1 when there is none).
SkipWs(s, i) ==
  LET stop == {j \in i..Len(s) : s[j] \notin Whitespace}
  IN  IF stop = {} THEN (IF i > Len(s) THEN i ELSE Len(s) + 1) ELSE Min(stop)

RECURSIVE Flatten(_)
Flatten(ss) == IF ss = <<>> THEN <<>> ELSE Head(ss) \o Flatten(Tail(ss))

\* ------------------------------------------------------------ JSON values
\* A value is a node [t, s, n, kids]: t its type, s the characters of a string
\* (or of an object key), n the value of a number, kids the elements of an
\* array, the value of a key, or the key/value pairs of an object.
Node(t, s, n, kids) == [t |-> t, s |-> s, n |-> n, kids |-> kids]
JStr(s) == Node("str", s, 0, <<>>)
JNum(n) == Node("num", <<>>, n, <<>>)
JArr(kids) == Node("arr", <<>>, 0, kids)
JPair(k, v) == Node("pair", k, 0, <<v>>)
JObj(pairs) == Node("obj", <<>>, 0, pairs)
JNone == Node("none", <<>>, 0, <<>>)

\* dict[key] = value: a repeated key keeps its place and takes the new value.
DictPut(pairs, k, v) ==
  IF \E i \in 1..Len(pairs) : pairs[i].s = k
  THEN [i \in 1..Len(pairs) |-> IF pairs[i].s = k THEN JPair(k, v) ELSE pairs[i]]
  ELSE Append(pairs, JPair(k, v))

Digits == <<"0", "1", "2", "3", "4", "5", "6", "7", "8", "9">>
DigitSet == {Digits[i] : i \in 1..10}
DigitVal(c) == (CHOOSE i \in 1..10 : Digits[i] = c) - 1

RECURSIVE DigitsToNat(_)
DigitsToNat(ds) ==
  IF ds = <<>> THEN 0
  ELSE 10 * DigitsToNat(SubSeq(ds, 1, Len(ds) - 1)) + DigitVal(ds[Len(ds)])

RECURSIVE NatToDigits(_)
NatToDigits(n) ==
  IF n < 10 THEN <<Digits[n + 1]>>
  ELSE Append(NatToDigits(n \div 10), Digits[(n % 10) + 1])

\* ------------------------------------------------------------ json.loads
\* Outcomes: "ok" (val, and pos the index after it), "err" (JSONDecodeError),
\* "rec" (RecursionError).
Ok(v, p) == [st |-> "ok", val |-> v, pos |-> p]
DecodeError == [st |-> "err", val |-> JNone, pos |-> 0]
RecursionError == [st |-> "rec", val |-> JNone, pos |-> 0]

\* The character an escape \c stands for ("" when the escape is invalid; \b, \f
\* and \uXXXX do not occur over the modelled alphabet).
Unescape(c) ==
  CASE c = "\"" -> "\""
    [] c = "\\" -> "\\"
    [] c = "/" -> "/"
    [] c = "n" -> "\n"
    [] c = "t" -> "\t"
    [] c = "r" -> "\r"
    [] OTHER -> ""

\* scanstring (strict): from the index after the opening quote.
RECURSIVE ScanString(_, _, _)
ScanString(s, i, acc) ==
  IF i > Len(s) THEN DecodeError
  ELSE IF s[i] = "\"" THEN Ok(JStr(acc), i + 1)
  ELSE IF s[i] \in {"\n", "\t", "\r"} THEN DecodeError
  ELSE IF s[i] = "\\"
       THEN IF i + 1 > Len(s) \/ Unescape(s[i + 1]) = "" THEN DecodeError
            ELSE ScanString(s, i + 2, Append(acc, Unescape(s[i + 1])))
  ELSE ScanString(s, i + 1, Append(acc, s[i]))

\* The integer literal at i: 0, or a run of digits not starting with 0.
ScanNumber(s, i) ==
  IF s[i] = "0" THEN Ok(JNum(0), i + 1)
  ELSE LET stop == {j \in i..Len(s) : s[j] \notin DigitSet}
           e == IF stop = {} THEN Len(s) + 1 ELSE Min(stop)
       IN  Ok(JNum(DigitsToNat(SubSeq(s, i, e - 1))), e)

RECURSIVE ScanOnce(_, _, _)
RECURSIVE ArrayLoop(_, _, _, _)
RECURSIVE ObjectLoop(_, _, _, _)

\* JSONArray: from the index after "[".
JSONArray(s, end, depth) ==
  LET e1 == SkipWs(s, end)
  IN  IF e1 <= Len(s) /\ s[e1] = "]" THEN Ok(JArr(<<>>), e1 + 1)
      ELSE ArrayLoop(s, e1, depth, <<>>)

ArrayLoop(s, i, depth, acc) ==
  LET r == ScanOnce(s, i, depth)
  IN  IF r.st # "ok" THEN r
      ELSE LET e == SkipWs(s, r.pos)
           IN  IF e > Len(s) THEN DecodeError
               ELSE IF s[e] = "]" THEN Ok(JArr(Append(acc, r.val)), e + 1)
               ELSE IF s[e] # "," THEN DecodeError
               ELSE ArrayLoop(s, SkipWs(s, e + 1), depth, Append(acc, r.val))

\* JSONObject: from the index after "{".
JSONObject(s, end, depth) ==
  LET e1 == SkipWs(s, end)
  IN  IF e1 > Len(s) THEN DecodeError
      ELSE IF s[e1] = "}" THEN Ok(JObj(<<>>), e1 + 1)
      ELSE IF s[e1] # "\"" THEN DecodeError
      ELSE ObjectLoop(s, e1 + 1, depth, <<>>)

\* One "key": value of an object, from the index after the key's opening quote.
ObjectLoop(s, i, depth, pairs) ==
  LET k == ScanString(s, i, <<>>)
  IN  IF k.st # "ok" THEN k
      ELSE LET c == SkipWs(s, k.pos)
           IN  IF c > Len(s) \/ s[c] # ":" THEN DecodeError
               ELSE LET v == ScanOnce(s, SkipWs(s, c + 1), depth)
                    IN  IF v.st # "ok" THEN v
                        ELSE LET e == SkipWs(s, v.pos)
                                 q == SkipWs(s, e + 1)
                                 upd == DictPut(pairs, k.val.s, v.val)
                             IN  IF e > Len(s) THEN DecodeError
                                 ELSE IF s[e] = "}" THEN Ok(JObj(upd), e + 1)
                                 ELSE IF s[e] # "," THEN DecodeError
                                 ELSE IF q > Len(s) \/ s[q] # "\"" THEN DecodeError
                                 ELSE ObjectLoop(s, q + 1, depth, upd)

\* scan_once: one value at index i, depth containers around it.
ScanOnce(s, i, depth) ==
  IF i > Len(s) THEN DecodeError
  ELSE IF s[i] = "\"" THEN ScanString(s, i + 1, <<>>)
  ELSE IF s[i] \in {"[", "{"}
       THEN IF depth >= MaxDepth THEN RecursionError
            ELSE IF s[i] = "[" THEN JSONArray(s, i + 1, depth + 1)
            ELSE JSONObject(s, i + 1, depth + 1)
  ELSE IF s[i] \in DigitSet THEN ScanNumber(s, i)
  ELSE DecodeError

\* json.loads: one value, whitespace around it, nothing else.
JsonLoads(s) ==
  LET r == ScanOnce(s, SkipWs(s, 1), 0)
  IN  IF r.st # "ok" THEN r
      ELSE IF SkipWs(s, r.pos) <= Len(s) THEN DecodeError
      ELSE r

IsList(v) == v.t = "arr"

\* ------------------------------------------------------------ json.dumps
EscapeChar(c) ==
  CASE c = "\"" -> <<"\\", "\"">>
    [] c = "\\" -> <<"\\", "\\">>
    [] c = "\n" -> <<"\\", "n">>
    [] c = "\t" -> <<"\\", "t">>
    [] c = "\r" -> <<"\\", "r">>
    [] OTHER -> <<c>>

Quote(s) == <<"\"">> \o Flatten([i \in 1..Len(s) |-> EscapeChar(s[i])]) \o <<"\"">>

\* ", ".join(parts)
Join(parts) ==
  Flatten([i \in 1..Len(parts) |-> IF i = 1 THEN parts[i] ELSE <<",", " ">> \o parts[i]])

\* json.dumps(value, ensure_ascii=False)
RECURSIVE JsonDumps(_)
JsonDumps(v) ==
  CASE v.t = "str" -> Quote(v.s)
    [] v.t = "num" -> NatToDigits(v.n)
    [] v.t = "arr" ->
         <<"[">> \o Join([i \in 1..Len(v.kids) |-> JsonDumps(v.kids[i])]) \o <<"]">>
    [] v.t = "obj" ->
         <<"{">>
         \o Join([i \in 1..Len(v.kids) |->
                    Quote(v.kids[i].s) \o <<":", " ">> \o JsonDumps(v.kids[i].kids[1])])
         \o <<"}">>

\* ------------------------------------------------------------ reply parsing
\* The backquote character (a TLA+ string cannot hold it).
Backtick == "^"

\* Whether the three characters at i are a fence marker.
IsFence(s, i) ==
  i + 2 <= Len(s) /\ s[i] = Backtick /\ s[i + 1] = Backtick /\ s[i + 2] = Backtick

\* Lower-casing (str.lower, re.IGNORECASE) over the capitals of the modelled alphabet.
Lower(c) ==
  CASE c = "J" -> "j" [] c = "S" -> "s" [] c = "O" -> "o" [] c = "N" -> "n"
    [] c = "A" -> "a" [] c = "L" -> "l" [] OTHER -> c

IsJsonWord(s, k) ==
  /\ k + 3 <= Len(s)
  /\ <<Lower(s[k]), Lower(s[k + 1]), Lower(s[k + 2]), Lower(s[k + 3])>> = <<"j", "s", "o", "n">>

\* fence_match = re.search(..., text, re.DOTALL | re.IGNORECASE): the
\* leftmost fence marker that has another one after it, an optional "json",
\* whitespace, and as group 1 the text up to the next fence marker.
FenceMatch(text) ==
  LET opens == {i \in 1..Len(text) :
                  IsFence(text, i) /\ \E j \in (i + 3)..Len(text) : IsFence(text, j)}
  IN  IF opens = {} THEN [found |-> FALSE, group |-> <<>>]
      ELSE LET i == Min(opens)
               k == IF IsJsonWord(text, i + 3) THEN i + 7 ELSE i + 3
               b == SkipWs(text, k)
               j == Min({x \in b..Len(text) : IsFence(text, x)})
           IN  [found |-> TRUE, group |-> SubSeq(text, b, j - 1)]

\* re.search(r"\[[\s\S]*\]", candidate): from the first "[" to the last "]".
BracketMatch(candidate) ==
  LET ls == {i \in 1..Len(candidate) : candidate[i] = "["}
      rs == {i \in 1..Len(candidate) : candidate[i] = "]"}
  IN  IF ls = {} \/ rs = {} \/ Max(rs) < Min(ls) THEN [found |-> FALSE, group |-> <<>>]
      ELSE [found |-> TRUE, group |-> SubSeq(candidate, Min(ls), Max(rs))]

KeyTerm == <<"t", "e", "r", "m">>
KeyDefinition == <<"d", "e", "f", "i", "n", "i", "t", "i", "o", "n">>
KeyContext == <<"c", "o", "n", "t", "e", "x", "t">>
\* The two fixed Japanese texts of the fallback item, one glyph each.
FailTerm == <<"<kaiseki-shippai>">>
FailDefinition == <<"<Gemini API no outou wo JSON to shite kaishaku dekimasen deshita>">>

\* The single item returned when the reply is not read as a JSON array.
FallbackItems(text) ==
  JArr(<<JObj(<<JPair(KeyTerm, JStr(FailTerm)),
                JPair(KeyDefinition, JStr(FailDefinition)),
                JPair(KeyContext, JStr(Take(Strip(text), ContextLimit)))>>)>>)

Returned(items) == [exc |-> "", items |-> items]
Raised(e) == [exc |-> e, items |-> JNone]

\* The retry inside "except json.JSONDecodeError".
BracketRetry(text, candidate) ==
  LET bm == BracketMatch(candidate)
      d2 == JsonLoads(bm.group)
  IN  IF ~bm.found THEN Returned(FallbackItems(text))
      ELSE IF d2.st = "rec" THEN Raised("RecursionError")
      ELSE IF d2.st = "ok" /\ IsList(d2.val) THEN Returned(d2.val)
      ELSE Returned(FallbackItems(text))

\* _generate_glossary from "text = response.text" on: what it returns or raises
\* for the reply text.
ParseReply(text) ==
  LET fm == FenceMatch(text)
      c1 == IF fm.found THEN Strip(fm.group) ELSE Strip(text)
      candidate == IF c1 = <<>> THEN Strip(text) ELSE c1
      d == JsonLoads(candidate)
  IN  IF d.st = "rec" THEN Raised("RecursionError")
      ELSE IF d.st = "err" THEN BracketRetry(text, candidate)
      ELSE IF IsList(d.val) THEN Returned(d.val)
      ELSE Returned(FallbackItems(text))

\* ------------------------------------------------------------ replies
\* A one-item glossary whose item has only the field term.
ArrText == <<"[", "{", "\"", "t", "e", "r", "m", "\"", ":", "\"", "a", "\"", "}", "]">>
\* A string literal whose text holds a fenced span.
FencedStr ==
  <<"\"", Backtick, Backtick, Backtick, "a", Backtick, Backtick, Backtick, "\"">>
FenceText == <<Backtick, Backtick, Backtick>>
JsonWord == <<"J", "s", "o", "n">>
ObjOpen == <<"{", "\"", "a", "\"", ":">>

\* The fragments replies are made of.
Parts ==
  {ArrText, FencedStr, FenceText, JsonWord, ObjOpen,
   <<"[">>, <<"]">>, <<"}">>, <<" ">>, <<"a">>}

PartSeqs(n) == UNION {[1..k -> Parts] : k \in 0..n}

Pad(n) == [i \in 1..n |-> "a"]

\* Replies around the length the fallback's context is cut at.
LongReplies ==
  {Flatten(ps) \o Pad(n) : ps \in PartSeqs(1), n \in {ContextLimit - 1, ContextLimit}}

ParserInputs == {Flatten(ps) : ps \in PartSeqs(MaxParts)} \cup LongReplies

\* ------------------------------------------------------------ page selector
\* int(text): surrounding whitespace, one optional sign, decimal digits.
PyInt(text) ==
  LET t == Strip(text)
      signed == t # <<>> /\ t[1] \in {"+", "-"}
      ds == IF signed THEN Tail(t) ELSE t
  IN  IF ds = <<>> \/ \E i \in 1..Len(ds) : ds[i] \notin DigitSet
      THEN [ok |-> FALSE, v |-> 0]
      ELSE [ok |-> TRUE,
            v |-> IF signed /\ t[1] = "-" THEN 0 - DigitsToNat(ds) ELSE DigitsToNat(ds)]

\* str(n)
PyStr(n) == IF n < 0 THEN <<"-">> \o NatToDigits(0 - n) ELSE NatToDigits(n)

LowerText(text) == [i \in 1..Len(text) |-> Lower(text[i])]

AllKey == <<"a", "l", "l">>

\* Variant of lines 268-276: page_index = int(page_param).
ResolvePageOneBased(page_param) ==
  IF page_param # <<>> /\ LowerText(page_param) # AllKey
  THEN LET n == PyInt(page_param)
       IN  [ok |-> n.ok, isAll |-> FALSE, index |-> n.v,
            key |-> IF n.ok THEN PyStr(n.v + 1) ELSE <<>>]
  ELSE [ok |-> TRUE, isAll |-> TRUE, index |-> 0, key |-> AllKey]

\* Variant of lines 268-276: a selector that is no number selects every page.
ResolvePageLenient(page_param) ==
  IF page_param # <<>> /\ LowerText(page_param) # AllKey /\ PyInt(page_param).ok
  THEN LET n == PyInt(page_param)
       IN  [ok |-> TRUE, isAll |-> FALSE, index |-> n.v - 1, key |-> PyStr((n.v - 1) + 1)]
  ELSE [ok |-> TRUE, isAll |-> TRUE, index |-> 0, key |-> AllKey]

\* Variant of lines 268-276: page_key = page_param.
ResolvePageVerbatim(page_param) ==
  IF page_param # <<>> /\ LowerText(page_param) # AllKey
  THEN LET n == PyInt(page_param)
       IN  [ok |-> n.ok, isAll |-> FALSE, index |-> n.v - 1,
            key |-> IF n.ok THEN page_param ELSE <<>>]
  ELSE [ok |-> TRUE, isAll |-> TRUE, index |-> 0, key |-> AllKey]

\* glossary, lines 268-276: the selector's page_index and page_key (<<>> is the
\* absent selector).
ResolvePage(page_param) ==
  IF page_param # <<>> /\ LowerText(page_param) # AllKey
  THEN LET n == PyInt(page_param)
       IN  [ok |-> n.ok, isAll |-> FALSE, index |-> n.v - 1,
            key |-> IF n.ok THEN PyStr((n.v - 1) + 1) ELSE <<>>]
  ELSE [ok |-> TRUE, isAll |-> TRUE, index |-> 0, key |-> AllKey]

\* ------------------------------------------------------------ documents
\* The uploaded lectures (a deleted one is from then on an unknown lecture_id).
DocIds == {"d1"}

\* reader.pages of an uploaded file: the text of every page (the second page
\* holds nothing but a blank).
PagesOf(d) == <<<<"a">>, <<" ">>>>

\* "\n".join(texts)
JoinLines(texts) ==
  Flatten([i \in 1..Len(texts) |-> IF i = 1 THEN texts[i] ELSE <<"\n">> \o texts[i]])

\* Variant of _extract_pdf_text: the range check is "page >= len(reader.pages)"
\* alone, a negative index counts from the last page.
ExtractPdfTextFromEnd(d, isAll, page, readerOk, fileThere) ==
  IF ~readerOk THEN [exc |-> "RuntimeError", text |-> <<>>]
  ELSE IF ~fileThere THEN [exc |-> "FileNotFoundError", text |-> <<>>]
  ELSE IF ~isAll
       THEN IF page >= Len(PagesOf(d)) \/ page < 0 - Len(PagesOf(d))
            THEN [exc |-> "ValueError", text |-> <<>>]
            ELSE [exc |-> "",
                  text |-> PagesOf(d)[IF page < 0 THEN Len(PagesOf(d)) + page + 1
                                      ELSE page + 1]]
  ELSE [exc |-> "", text |-> JoinLines(PagesOf(d))]

\* _extract_pdf_text: what it returns or raises.
ExtractPdfText(d, isAll, page, readerOk, fileThere) ==
  IF ~readerOk THEN [exc |-> "RuntimeError", text |-> <<>>]
  ELSE IF ~fileThere THEN [exc |-> "FileNotFoundError", text |-> <<>>]
  ELSE IF ~isAll
       THEN IF page < 0 \/ page >= Len(PagesOf(d))
            THEN [exc |-> "ValueError", text |-> <<>>]
            ELSE [exc |-> "", text |-> PagesOf(d)[page + 1]]
  ELSE [exc |-> "", text |-> JoinLines(PagesOf(d))]

\* ------------------------------------------------------------ glossary cache
Row(d, k, payload, ts) ==
  [lecture_id |-> d, page_key |-> k, items_json |-> payload, updated_at |-> ts]

RowsOf(table, d, k) == {row \in table : row.lecture_id = d /\ row.page_key = k}

\* Variant of get_glossary_cache: the stored text is not decoded, every
\* entry reads as an empty list.
GetGlossaryCacheUndecoded(table, d, k) ==
  IF RowsOf(table, d, k) = {}
  THEN [found |-> FALSE, exc |-> "", items |-> JNone, updated_at |-> 0]
  ELSE LET row == CHOOSE x \in RowsOf(table, d, k) : TRUE
       IN  [found |-> TRUE, exc |-> "", items |-> JArr(<<>>),
            updated_at |-> row.updated_at]

\* Variant of get_glossary_cache: the query matches no row.
GetGlossaryCacheNoRow(table, d, k) ==
  [found |-> FALSE, exc |-> "", items |-> JNone, updated_at |-> 0]

\* get_glossary_cache
GetGlossaryCache(table, d, k) ==
  IF RowsOf(table, d, k) = {}
  THEN [found |-> FALSE, exc |-> "", items |-> JNone, updated_at |-> 0]
  ELSE LET row == CHOOSE x \in RowsOf(table, d, k) : TRUE
           data == JsonLoads(row.items_json)
       IN  [found |-> TRUE,
            exc |-> IF data.st = "rec" THEN "RecursionError" ELSE "",
            items |-> IF data.st = "ok" THEN data.val ELSE JArr(<<>>),
            updated_at |-> row.updated_at]

\* Variant of upsert_glossary_cache: INSERT OR IGNORE, a conflicting row stays.
UpsertIgnoreConflict(table, d, k, items, ts) ==
  IF RowsOf(table, d, k) = {}
  THEN table \cup {Row(d, k, JsonDumps(items), ts)}
  ELSE table

\* Variant of upsert_glossary_cache: DO UPDATE SET items_json only.
UpsertItemsOnly(table, d, k, items, ts) ==
  IF RowsOf(table, d, k) = {}
  THEN table \cup {Row(d, k, JsonDumps(items), ts)}
  ELSE {IF row \in RowsOf(table, d, k)
        THEN [row EXCEPT !.items_json = JsonDumps(items)]
        ELSE row : row \in table}

\* Variant of upsert_glossary_cache: the row is written under the key "all".
UpsertWholeDocKey(table, d, k, items, ts) ==
  IF RowsOf(table, d, AllKey) = {}
  THEN table \cup {Row(d, AllKey, JsonDumps(items), ts)}
  ELSE {IF row \in RowsOf(table, d, AllKey)
        THEN [row EXCEPT !.items_json = JsonDumps(items), !.updated_at = ts]
        ELSE row : row \in table}

\* Variant of upsert_glossary_cache: the conflict target is page_key alone.
UpsertAnyLecture(table, d, k, items, ts) ==
  IF {row \in table : row.page_key = k} = {}
  THEN table \cup {Row(d, k, JsonDumps(items), ts)}
  ELSE {IF row.page_key = k
        THEN [row EXCEPT !.items_json = JsonDumps(items), !.updated_at = ts]
        ELSE row : row \in table}

\* Variant of upsert_glossary_cache: the item of a reply that was not read is
\* not written.
UpsertParsedOnly(table, d, k, items, ts) ==
  IF Len(items.kids) = 1 /\ items.kids[1].t = "obj"
     /\ \E i \in 1..Len(items.kids[1].kids) :
          items.kids[1].kids[i] = JPair(KeyTerm, JStr(FailTerm))
  THEN table
  ELSE IF RowsOf(table, d, k) = {}
  THEN table \cup {Row(d, k, JsonDumps(items), ts)}
  ELSE {IF row \in RowsOf(table, d, k)
        THEN [row EXCEPT !.items_json = JsonDumps(items), !.updated_at = ts]
        ELSE row : row \in table}

\* upsert_glossary_cache: INSERT ... ON CONFLICT(lecture_id, page_key) DO UPDATE.
UpsertGlossaryCache(table, d, k, items, ts) ==
  LET payload == JsonDumps(items)
  IN  IF RowsOf(table, d, k) = {}
      THEN table \cup {Row(d, k, payload, ts)}
      ELSE {IF row \in RowsOf(table, d, k)
            THEN [row EXCEPT !.items_json = payload, !.updated_at = ts]
            ELSE row : row \in table}

\* ------------------------------------------------------------ state
VARIABLES
  files,      \* lecture_files: the lecture_ids that have a record
  onDisk,     \* the lecture_ids whose PDF is in UPLOAD_DIR
  cache,      \* lecture_glossary_cache: a set of rows
  now,        \* the last reading of datetime.now()
  configured, \* genai and GOOGLE_API_KEY
  pdfReader,  \* PdfReader was imported
  req,        \* the glossary requests being served, by worker
  started,    \* glossary requests begun so far
  hist,       \* history of generations and cache writes, by (lecture_id, page_key)
  pText,      \* function specifications: the text handed to the function
  pOut        \* function specifications: what the function returned or raised

vars ==
  <<files, onDisk, cache, now, configured, pdfReader, req, started, hist, pText, pOut>>

NotRun == [exc |-> "not run", items |-> JNone]

\* The workers that serve requests side by side.
Workers == {"w1", "w2"}

\* The page selectors and refresh parameters requests carry.
PageParams ==
  {<<>>, <<"1">>, <<"2">>, <<"0">>, <<"3">>, <<"x">>}
RefreshParams == {<<>>, <<"1">>}

PageKeys == {ResolvePage(p).key : p \in {q \in PageParams : ResolvePage(q).ok}}
Keys == DocIds \X PageKeys

\* What the generation service does with one call: a reply text, or a failure.
Replies == {ArrText, <<"a">>}
ServiceFailure == <<"<service failure>">>
ServiceOutcomes == Replies \cup {ServiceFailure}

\* jsonify(...) and the status sent with it (updated_at -1: the key is absent).
Resp(status, cached, items, updated_at, error) ==
  [status |-> status, cached |-> cached, items |-> items,
   updated_at |-> updated_at, error |-> error]
ErrorResp(status, error) == Resp(status, FALSE, JNone, -1, error)
NoResp == Resp(0, FALSE, JNone, -1, "")

NoEntry == [found |-> FALSE, exc |-> "", items |-> JNone, updated_at |-> 0]

\* A worker that serves no request.  Besides the request's parameters (doc,
\* page, refresh) and the handler's locals (isAll .. items)
\* a request records what it did: consulted the cache, called the extractor,
\* called the generation service (calls: how often), wrote the cache (prev: the
\* entry it found in place); gen numbers its generation among the successful
\* ones.
Idle ==
  [pc |-> "idle", doc |-> "", page |-> <<>>, refresh |-> <<>>,
   isAll |-> TRUE, index |-> 0, key |-> <<>>, items |-> JNone, resp |-> NoResp,
   consulted |-> FALSE, extracted |-> FALSE, invoked |-> FALSE, calls |-> 0,
   wrote |-> FALSE,
   prev |-> NoEntry, gen |-> 0]

InFlight(w) == req[w].pc \notin {"idle", "done"}

\* The worker that takes the next request: the first one that has served none
\* yet, else the first one that serves none.
FreeWorker ==
  IF req["w1"].pc = "idle" THEN "w1"
  ELSE IF req["w2"].pc = "idle" THEN "w2"
  ELSE IF ~InFlight("w1") THEN "w1"
  ELSE IF ~InFlight("w2") THEN "w2"
  ELSE "none"

\* The handler returns: its locals are gone, the record of what it did stays.
Finish(w, r, response) ==
  req' = [req EXCEPT ![w] =
            [r EXCEPT !.pc = "done", !.resp = response,
                      !.isAll = TRUE, !.index = 0, !.items = JNone, !.gen = 0]]

InitHist ==
  [k \in Keys |->
     [gens |-> 0, overlap |-> FALSE, lost |-> FALSE, latestGen |-> 0,
      latestItems |-> JNone, puts |-> {}]]

\* The cache table outlives the process: when the application starts it is
\* empty, or holds what an earlier run generated and stored for the whole
\* document.
EarlierItems == ParseReply(ArrText).items
EarlierRow == Row("d1", AllKey, JsonDumps(EarlierItems), 0)
EarlierHist ==
  [InitHist EXCEPT ![<<"d1", AllKey>>] =
     [gens |-> 1, overlap |-> FALSE, lost |-> FALSE, latestGen |-> 1,
      latestItems |-> EarlierItems, puts |-> {EarlierRow}]]

Init ==
  /\ files = DocIds
  /\ onDisk = DocIds
  /\ cache \in {{}, {EarlierRow}}
  /\ now = 0
  /\ configured \in BOOLEAN
  /\ pdfReader \in BOOLEAN
  /\ req = [w \in Workers |-> Idle]
  /\ started = [total |-> 0, refresh |-> FALSE, genSeq |-> Cardinality(cache)]
  /\ hist = IF cache = {} THEN InitHist ELSE EarlierHist
  /\ pText = <<>>
  /\ pOut = NotRun

\* ------------------------------------------------------------ _generate_glossary
\* Variant of line 86: the whole text goes into the prompt.
NotTruncated(content) == content

\* truncated = content[:12000], the source text the prompt is built around.
Truncated(content) == Take(content, PromptLimit)

\* The one call of the service was made with the text `sent` in its prompt and
\* its reply was parsed to `out`.
Parsed(sent, out) ==
  [exc |-> out.exc, invoked |-> TRUE, calls |-> 1, sent |-> sent, items |-> out.items]

\* Variant of _generate_glossary: a failed call of the service is made again.
GenerateGlossaryRetrying(content, isConfigured, outcome) ==
  IF ~isConfigured
  THEN [exc |-> "RuntimeError", invoked |-> FALSE, calls |-> 0, sent |-> <<>>,
        items |-> JNone]
  ELSE IF outcome = ServiceFailure
       THEN [exc |-> "ServiceError", invoked |-> TRUE, calls |-> 2,
             sent |-> Truncated(content), items |-> JNone]
  ELSE Parsed(Truncated(content), ParseReply(outcome))

\* What one call returns or raises, whether and how often it called the
\* service, whose answer to the call is `outcome`, and with which text.
GenerateGlossary(content, isConfigured, outcome) ==
  IF ~isConfigured
  THEN [exc |-> "RuntimeError", invoked |-> FALSE, calls |-> 0, sent |-> <<>>,
        items |-> JNone]
  ELSE IF outcome = ServiceFailure
       THEN [exc |-> "ServiceError", invoked |-> TRUE, calls |-> 1,
             sent |-> Truncated(content), items |-> JNone]
  ELSE Parsed(Truncated(content), ParseReply(outcome))

\* ------------------------------------------------------------ glossary()
\* Variant of the blank check: "if not content".
IsEmpty(content) == content = <<>>

\* if not content.strip()
IsBlank(content) == Strip(content) = <<>>

\* The response to what lines 285-288 raise: ValueError 400, the rest 500.
Failure(exc) == ErrorResp(IF exc = "ValueError" THEN 400 ELSE 500, exc)

\* Lines 260-266 and 278-282, for the resolved selector pg: the document, its
\* file, the refresh flag and, unless a refresh is forced, the entry `cached`
\* that the cache lookup returns.
Lookup(w, d, p, f, pg, cached) ==
  LET accepted == d \in files /\ d \in onDisk /\ pg.ok
      asked == [Idle EXCEPT !.doc = d, !.page = p, !.refresh = f]
      r == [asked EXCEPT
                        !.isAll = pg.isAll, !.index = pg.index, !.key = pg.key,
                        !.consulted = accepted /\ f = <<>>]
      overlaps == \E v \in Workers \ {w} :
                     InFlight(v) /\ req[v].doc = d /\ req[v].key = pg.key
  IN  /\ w = FreeWorker
      /\ started.total < MaxRequests
      /\ started' = [started EXCEPT !.total = @ + 1,
                                    !.refresh = @ \/ (accepted /\ f # <<>>)]
      /\ IF d \notin files THEN Finish(w, asked, ErrorResp(404, "no document"))
         ELSE IF d \notin onDisk THEN Finish(w, asked, ErrorResp(404, "no file"))
         ELSE IF ~pg.ok THEN Finish(w, asked, ErrorResp(400, "bad page"))
         ELSE IF f = <<>> /\ cached.exc # "" THEN Finish(w, r, ErrorResp(500, cached.exc))
         ELSE IF f = <<>> /\ cached.found
         THEN Finish(w, r, Resp(200, TRUE, cached.items, cached.updated_at, ""))
         ELSE req' = [req EXCEPT ![w] = [r EXCEPT !.pc = "generate"]]
      /\ hist' = IF accepted /\ overlaps
                 THEN [hist EXCEPT ![<<d, pg.key>>].overlap = TRUE]
                 ELSE hist
      /\ UNCHANGED <<files, onDisk, cache, now, configured, pdfReader, pText, pOut>>

\* Lines 260-282: a request for lecture d with page selector p and refresh
\* parameter f, up to the cache lookup.
Begin(w, d, p, f) ==
  Lookup(w, d, p, f, ResolvePage(p), GetGlossaryCache(cache, d, ResolvePage(p).key))

\* Lines 286-288 and the except clauses, for what the extractor gave (e) and,
\* where it is called, the generator (g).
Respond(w, e, g) ==
  LET r == [req[w] EXCEPT !.extracted = TRUE]
      called == [r EXCEPT !.invoked = g.invoked, !.calls = g.calls]
      n == started.genSeq + 1
      k == <<r.doc, r.key>>
  IN  /\ req[w].pc = "generate"
      /\ IF e.exc # "" THEN
           /\ Finish(w, r, Failure(e.exc))
           /\ UNCHANGED <<started, hist>>
         ELSE IF IsBlank(e.text) THEN
           /\ Finish(w, r, ErrorResp(500, "no text"))
           /\ UNCHANGED <<started, hist>>
         ELSE IF g.exc # "" THEN
           /\ Finish(w, called, Failure(g.exc))
           /\ UNCHANGED <<started, hist>>
         ELSE
           /\ req' = [req EXCEPT ![w] =
                        [called EXCEPT !.pc = "store", !.items = g.items, !.gen = n]]
           /\ started' = [started EXCEPT !.genSeq = n]
           /\ hist' = IF r.refresh = <<>>
                      THEN [hist EXCEPT ![k].gens = @ + 1]
                      ELSE hist
      /\ UNCHANGED <<files, onDisk, cache, now, configured, pdfReader, pText, pOut>>

\* The text of the request's scope.
Extracted(w) ==
  ExtractPdfText(req[w].doc, req[w].isAll, req[w].index, pdfReader,
                 req[w].doc \in onDisk)

\* Lines 284-288: the text of the requested scope and the glossary generated
\* from it, the service answering with `outcome`.
Generate(w, outcome) ==
  Respond(w, Extracted(w), GenerateGlossary(Extracted(w).text, configured, outcome))

\* Variant of lines 289-290: the write is followed by a failure, which the
\* handler answers with 500.
StoreThenFail(w, ts) ==
  LET r == req[w]
      k == <<r.doc, r.key>>
      newer == r.gen > hist[k].latestGen
  IN  /\ r.pc = "store"
      /\ ts \in {now, now + 1}
      /\ ts <= MaxClock
      /\ now' = ts
      /\ cache' = UpsertGlossaryCache(cache, r.doc, r.key, r.items, ts)
      /\ Finish(w, [r EXCEPT !.wrote = TRUE,
                             !.prev = GetGlossaryCache(cache, r.doc, r.key)],
                ErrorResp(500, "Exception"))
      /\ hist' = [hist EXCEPT
                    ![k].puts = @ \cup {Row(r.doc, r.key, JsonDumps(r.items), ts)},
                    ![k].latestGen = IF newer THEN r.gen ELSE @,
                    ![k].latestItems = IF newer THEN r.items ELSE @]
      /\ UNCHANGED <<files, onDisk, configured, pdfReader, started, pText, pOut>>

\* Lines 289-290: the cache write at ts = datetime.now(), which is the clock's
\* last reading or a later one, and the response.
Store(w, ts) ==
  LET r == req[w]
      k == <<r.doc, r.key>>
      newer == r.gen > hist[k].latestGen
  IN  /\ r.pc = "store"
      /\ ts \in {now, now + 1}
      /\ ts <= MaxClock
      /\ now' = ts
      /\ cache' = UpsertGlossaryCache(cache, r.doc, r.key, r.items, ts)
      /\ Finish(w, [r EXCEPT !.wrote = TRUE,
                             !.prev = GetGlossaryCache(cache, r.doc, r.key)],
                Resp(200, FALSE, r.items, -1, ""))
      /\ hist' = [hist EXCEPT
                    ![k].puts = @ \cup {Row(r.doc, r.key, JsonDumps(r.items), ts)},
                    ![k].latestGen = IF newer THEN r.gen ELSE @,
                    ![k].latestItems = IF newer THEN r.items ELSE @]
      /\ UNCHANGED <<files, onDisk, configured, pdfReader, started, pText, pOut>>

\* Line 289 raising (the database refuses the write) and lines 295-296: nothing
\* is written, the generated glossary is lost, the response is 500.
StoreFails(w) ==
  LET r == req[w]
  IN  /\ r.pc = "store"
      /\ Finish(w, r, ErrorResp(500, "Exception"))
      /\ hist' = [hist EXCEPT ![<<r.doc, r.key>>].lost = TRUE]
      /\ UNCHANGED <<files, onDisk, cache, now, configured, pdfReader, started,
                     pText, pOut>>

\* ------------------------------------------------------------ the rest
\* delete_pdf, lines 215-222: os.remove(file_path).
RemoveFile(d) ==
  /\ d \in files
  /\ d \in onDisk
  /\ onDisk' = onDisk \ {d}
  /\ UNCHANGED <<files, cache, now, configured, pdfReader, req, started, hist,
                 pText, pOut>>

\* delete_pdf_record
DeletePdfRecord(d) ==
  /\ d \in files
  /\ d \notin onDisk
  /\ files' = files \ {d}
  /\ UNCHANGED <<onDisk, cache, now, configured, pdfReader, req, started, hist,
                 pText, pOut>>

Next ==
  \/ \E w \in Workers, d \in DocIds, p \in PageParams, f \in RefreshParams :
       Begin(w, d, p, f)
  \/ \E w \in Workers, outcome \in ServiceOutcomes : Generate(w, outcome)
  \/ \E w \in Workers, ts \in 0..MaxClock : Store(w, ts)
  \/ \E w \in Workers : StoreFails(w)
  \/ \E d \in DocIds : RemoveFile(d)
  \/ \E d \in DocIds : DeletePdfRecord(d)

Spec == Init /\ [][Next]_vars

\* ------------------------------------------------------------ parser specification
InitParser ==
  /\ files = DocIds
  /\ onDisk = DocIds
  /\ cache = {}
  /\ now = 0
  /\ configured = TRUE
  /\ pdfReader = TRUE
  /\ req = [w \in Workers |-> Idle]
  /\ started = [total |-> 0, refresh |-> FALSE, genSeq |-> 0]
  /\ hist = InitHist
  /\ pText \in ParserInputs
  /\ pOut = NotRun

RunParser ==
  /\ pOut = NotRun
  /\ pOut' = ParseReply(pText)
  /\ UNCHANGED <<files, onDisk, cache, now, configured, pdfReader, req, started, hist,
                 pText>>

NextParser == RunParser

SpecParser == InitParser /\ [][NextParser]_vars

\* ------------------------------------------------------------ cache properties
\* The entry the table holds for a request's key.
EntryOf(table, r) == RowsOf(table, r.doc, r.key)

\* The step in which worker w takes a request without refresh for a known
\* lecture whose file exists, with a well-formed selector, while the table
\* holds an entry for the request's key.
HitStep(w) ==
  /\ started'.total = started.total + 1
  /\ w = FreeWorker
  /\ req'[w].consulted
  /\ EntryOf(cache, req'[w]) # {}

\* C1: a request without refresh that finds an entry for its key is answered
\* 200 with the entry's items, cached = true and the entry's timestamp, it calls
\* neither the extractor nor the generation service, and the table stays as it
\* is (so that the next such request is answered with the same items).
C1_CacheHit ==
  [][\A w \in Workers :
       HitStep(w) =>
         /\ req'[w].pc = "done"
         /\ req'[w].resp.status = 200
         /\ req'[w].resp.cached
         /\ \A row \in EntryOf(cache, req'[w]) :
              /\ JsonDumps(req'[w].resp.items) = row.items_json
              /\ req'[w].resp.updated_at = row.updated_at
         /\ ~req'[w].extracted
         /\ ~req'[w].invoked
         /\ ~req'[w].wrote
         /\ cache' = cache]_vars

\* Two requests for one key were both answered from the cache, with the same
\* items, the ones the table holds.
C1_Witness ==
  \E w, v \in Workers :
    /\ w # v
    /\ req[w].pc = "done" /\ req[v].pc = "done"
    /\ req[w].resp.cached /\ req[v].resp.cached
    /\ req[w].doc = req[v].doc /\ req[w].key = req[v].key
    /\ req[w].resp.items = req[v].resp.items
    /\ \E row \in EntryOf(cache, req[w]) :
         row.items_json = JsonDumps(req[w].resp.items)

\* The step in which a request that forces a refresh writes its glossary.
RefreshStore(w) ==
  /\ req[w].pc = "store"
  /\ req[w].refresh # <<>>
  /\ req'[w].pc = "done"
  /\ req'[w].resp.status = 200

\* C2: a request that forces a refresh never looks the cache up and is never
\* answered from it; when it succeeds it has called the generation service, the
\* entry of its key is afterwards exactly its new items with the timestamp of
\* the write, whatever the entry was, and the response has cached = false.
C2_ForceRefresh ==
  [][\A w \in Workers :
       /\ req'[w].refresh # <<>> => ~req'[w].consulted /\ ~req'[w].resp.cached
       /\ RefreshStore(w) =>
            /\ req'[w].invoked
            /\ EntryOf(cache', req[w]) =
                 {Row(req[w].doc, req[w].key, JsonDumps(req[w].items), now')}
            /\ req'[w].resp = Resp(200, FALSE, req[w].items, -1, "")]_vars

\* A forced refresh found an entry with other items in place and the table now
\* holds the items of the refresh.
C2_Witness ==
  \E w \in Workers :
    /\ req[w].pc = "done"
    /\ req[w].refresh # <<>>
    /\ req[w].wrote
    /\ req[w].invoked
    /\ req[w].prev.found
    /\ req[w].prev.items # req[w].resp.items
    /\ \E row \in EntryOf(cache, req[w]) :
         row.items_json = JsonDumps(req[w].resp.items)

\* C3, as claimed: while no request forces a refresh, the generation service
\* answers at most one call per (lecture_id, page_key), also when requests for
\* the key overlap.
C3_AtMostOnce ==
  ~started.refresh => \A k \in Keys : hist[k].gens <= 1

\* C3, amended: while no request forces a refresh, the generation service
\* answers at most one call per (lecture_id, page_key), provided no request for
\* the key began while another one for it was being served and no generated
\* glossary of the key was lost to a failed write.
C3_AtMostOnceInTurn ==
  ~started.refresh =>
    \A k \in Keys : ~hist[k].overlap /\ ~hist[k].lost => hist[k].gens <= 1

\* Two requests for one key, one after the other: the first generated and
\* stored, the second was answered from the cache.
C3_Witness ==
  \E w, v \in Workers :
    /\ ~started.refresh
    /\ req[w].pc = "done" /\ req[v].pc = "done"
    /\ req[w].doc = req[v].doc /\ req[w].key = req[v].key
    /\ <<req[w].doc, req[w].key>> \in Keys
    /\ ~hist[<<req[w].doc, req[w].key>>].overlap
    /\ hist[<<req[w].doc, req[w].key>>].gens = 1
    /\ req[w].wrote /\ req[w].invoked
    /\ req[v].resp.cached /\ ~req[v].invoked

\* C4: the entry of a key holds the items of the latest generation (in the
\* order the generations completed) among those stored for the key.
C4_Freshness ==
  \A k \in Keys :
    \A row \in RowsOf(cache, k[1], k[2]) :
      row.items_json = JsonDumps(hist[k].latestItems)

\* C5: the table holds at most one row per (lecture_id, page_key), and that
\* row is, items and timestamp, what one single call of the upsert was given.
C5_AtomicUpsert ==
  /\ \A row \in cache : <<row.lecture_id, row.page_key>> \in Keys
  /\ \A k \in Keys :
       /\ Cardinality(RowsOf(cache, k[1], k[2])) <= 1
       /\ RowsOf(cache, k[1], k[2]) \subseteq hist[k].puts

\* A key was written twice, with different items at different times, and has
\* an entry.
C5_Witness ==
  \E k \in Keys :
    /\ RowsOf(cache, k[1], k[2]) # {}
    /\ \E a, b \in hist[k].puts :
         a.items_json # b.items_json /\ a.updated_at # b.updated_at

\* The step in which a request gets from the extractor a text that is empty
\* or only whitespace.
BlankStep(w) ==
  /\ req[w].pc = "generate"
  /\ req'[w].pc # "generate"
  /\ Extracted(w).exc = ""
  /\ Strip(Extracted(w).text) = <<>>

\* C6: when the extractor returns an empty or whitespace-only text, on a miss
\* as on a forced refresh, the request is answered 500 (no text), the
\* generation service is not called and the table is not written.
C6_EmptyTextGuard ==
  [][\A w \in Workers :
       BlankStep(w) =>
         /\ req'[w].pc = "done"
         /\ req'[w].resp = ErrorResp(500, "no text")
         /\ ~req'[w].invoked
         /\ ~req'[w].wrote
         /\ cache' = cache]_vars

\* A miss and a forced refresh both ended on the blank page.
C6_Witness ==
  \E w, v \in Workers :
    /\ req[w].pc = "done" /\ req[v].pc = "done"
    /\ req[w].refresh = <<>> /\ req[v].refresh # <<>>
    /\ req[w].consulted
    /\ req[w].resp = ErrorResp(500, "no text")
    /\ req[v].resp = ErrorResp(500, "no text")
    /\ req[w].extracted /\ req[v].extracted

\* C7: the table changes only in the step that ends a request with 200 and
\* cached = false; a request that ends with an error has written nothing and
\* the step that ends it leaves the table as it is.
C7_NoCachingOnFailure ==
  [][/\ cache' # cache =>
          \E w \in Workers :
            /\ req[w].pc = "store"
            /\ req'[w].pc = "done"
            /\ req'[w].resp.status = 200
            /\ ~req'[w].resp.cached
     /\ \A w \in Workers :
          req'[w] # req[w] /\ req'[w].pc = "done" /\ req'[w].resp.status # 200
            => cache' = cache /\ ~req'[w].wrote]_vars

\* With an entry in the table, one request failed in the generation service
\* and another one for the lecture was turned down for its selector; the table
\* holds what it held.
C7_Witness ==
  \E w, v \in Workers :
    /\ req[w].pc = "done" /\ req[v].pc = "done"
    /\ req[w].resp.status = 500 /\ req[w].invoked /\ ~req[w].wrote
    /\ req[v].resp.status = 400
    /\ cache = {EarlierRow}

\* ------------------------------------------------------------ selector specification
\* The characters page selectors are made of.
SelChars == {"a", "A", "l", "L", "0", "1", "2", "3", "-", "+", " ", "x"}

SelectorInputs == UNION {[1..n -> SelChars] : n \in 0..MaxSelLen}

InitSelector ==
  /\ files = DocIds
  /\ onDisk = DocIds
  /\ cache = {}
  /\ now = 0
  /\ configured = TRUE
  /\ pdfReader = TRUE
  /\ req = [w \in Workers |-> Idle]
  /\ started = [total |-> 0, refresh |-> FALSE, genSeq |-> 0]
  /\ hist = InitHist
  /\ pText \in SelectorInputs
  /\ pOut = NotRun

RunSelector ==
  /\ pOut = NotRun
  /\ pOut' = ResolvePage(pText)
  /\ UNCHANGED <<files, onDisk, cache, now, configured, pdfReader, req, started, hist,
                 pText>>

NextSelector == RunSelector

SpecSelector == InitSelector /\ [][NextSelector]_vars

\* The selector "all" in any letter case.
SpellsAll(sel) ==
  /\ Len(sel) = 3
  /\ sel[1] \in {"a", "A"}
  /\ sel[2] \in {"l", "L"}
  /\ sel[3] \in {"l", "L"}

\* The selector is the decimal text of a positive integer.
IsPositiveDecimal(sel) ==
  /\ sel # <<>>
  /\ \A i \in 1..Len(sel) : sel[i] \in DigitSet
  /\ DigitsToNat(sel) >= 1

\* What the extractor returns for the resolved scope when it can read the file.
ScopeText(pg) == ExtractPdfText("d1", pg.isAll, pg.index, TRUE, TRUE)

\* C11: the absent selector and "all" in any letter case resolve to page_key
\* "all" and the text of the whole document; the decimal text of a positive
\* integer N resolves to page_key N in decimal and to extraction index N - 1,
\* the N-th page.
C11_PageSelector ==
  pOut # NotRun =>
    /\ pText = <<>> \/ SpellsAll(pText) =>
         /\ pOut.ok /\ pOut.isAll /\ pOut.key = AllKey
         /\ ScopeText(pOut) = [exc |-> "", text |-> JoinLines(PagesOf("d1"))]
    /\ IsPositiveDecimal(pText) =>
         /\ pOut.ok /\ ~pOut.isAll
         /\ pOut.key = NatToDigits(DigitsToNat(pText))
         /\ pOut.index = DigitsToNat(pText) - 1
         /\ DigitsToNat(pText) <= Len(PagesOf("d1")) =>
              ScopeText(pOut) = [exc |-> "", text |-> PagesOf("d1")[DigitsToNat(pText)]]

\* The selector "3" was resolved to page_key "3" and index 2.
C11_Witness ==
  pText = <<"3">> /\ pOut # NotRun /\ pOut.key = <<"3">> /\ pOut.index = 2

\* ------------------------------------------------------------ selector properties
\* The step in which worker w takes a request.
Arrives(w) == started'.total = started.total + 1 /\ w = FreeWorker

\* The request's selector is a number that names no page of its document.
OutOfRange(r) ==
  /\ PyInt(r.page).ok
  /\ PyInt(r.page).v < 1 \/ PyInt(r.page).v > Len(PagesOf(r.doc))

\* C12: on a miss or a forced refresh, a numeric selector below 1 or above the
\* page count makes the extractor raise ValueError, answered 400, whenever the
\* extractor gets to read the file (without PyPDF2 or the file it fails before,
\* answered 500); the request ends there: the generation service is not
\* called and nothing is written.
C12_OutOfRangePage ==
  [][\A w \in Workers :
       req[w].pc = "generate" /\ req'[w].pc # "generate" /\ OutOfRange(req[w]) =>
         /\ req'[w].pc = "done"
         /\ req'[w].extracted
         /\ ~req'[w].invoked
         /\ ~req'[w].wrote
         /\ cache' = cache
         /\ req'[w].resp.status \in {400, 500}
         /\ pdfReader /\ req[w].doc \in onDisk =>
              req'[w].resp = ErrorResp(400, "ValueError")]_vars

\* A request for page "0" and a forced refresh for page "3" of the two-page
\* document were both answered 400 by the extractor's range check.
C12_Witness ==
  \E w, v \in Workers :
    /\ req[w].pc = "done" /\ req[v].pc = "done"
    /\ req[w].page = <<"0">> /\ req[w].refresh = <<>>
    /\ req[v].page = <<"3">> /\ req[v].refresh # <<>>
    /\ req[w].resp = ErrorResp(400, "ValueError")
    /\ req[v].resp = ErrorResp(400, "ValueError")
    /\ req[w].extracted /\ req[v].extracted
    /\ ~req[w].invoked /\ ~req[v].invoked

\* The selector is present, does not spell "all" and is no number.
Malformed(sel) == sel # <<>> /\ ~SpellsAll(sel) /\ ~PyInt(sel).ok

\* C13: a request whose selector is present, is not "all" and is no number is
\* turned down as it arrives, whatever its refresh flag and the cache: 400 for
\* the selector (404 when the lecture or its file is unknown, which is checked
\* first), with no cache lookup, no extraction, no call of the generation
\* service and no write.
C13_SelectorValidation ==
  [][\A w \in Workers :
       Arrives(w) /\ Malformed(req'[w].page) =>
         /\ req'[w].pc = "done"
         /\ req'[w].resp.status \in {400, 404}
         /\ req'[w].doc \in files /\ req'[w].doc \in onDisk =>
              req'[w].resp = ErrorResp(400, "bad page")
         /\ ~req'[w].consulted
         /\ ~req'[w].extracted
         /\ ~req'[w].invoked
         /\ ~req'[w].wrote
         /\ cache' = cache]_vars

\* With an entry in the cache, a request with the selector "x" and a forced
\* refresh with it were both turned down with 400.
C13_Witness ==
  \E w, v \in Workers :
    /\ req[w].pc = "done" /\ req[v].pc = "done"
    /\ req[w].page = <<"x">> /\ req[v].page = <<"x">>
    /\ req[w].refresh = <<>> /\ req[v].refresh # <<>>
    /\ req[w].resp = ErrorResp(400, "bad page")
    /\ req[v].resp = ErrorResp(400, "bad page")
    /\ cache = {EarlierRow}

\* ------------------------------------------------------------ generation properties
\* The step in which a request, having got a text that is not blank from the
\* extractor, calls _generate_glossary.
GenerateStep(w) ==
  /\ req[w].pc = "generate"
  /\ req'[w].pc # "generate"
  /\ Extracted(w).exc = ""
  /\ Strip(Extracted(w).text) # <<>>

\* C16: while the generation service is not configured, a generate call fails
\* with RuntimeError, answered 500, without a call of the service; while it is
\* configured, a generate call calls the service exactly once, also when the
\* call fails.
C16_AvailabilityGate ==
  [][\A w \in Workers :
       GenerateStep(w) =>
         /\ ~configured =>
              /\ req'[w].pc = "done"
              /\ req'[w].resp = ErrorResp(500, "RuntimeError")
              /\ req'[w].calls = 0
              /\ ~req'[w].invoked
              /\ ~req'[w].wrote
         /\ configured =>
              /\ req'[w].calls = 1
              /\ req'[w].invoked]_vars

\* With the extractor at hand and the service not configured, a request for
\* the first page ended 500 in the generator, which called nothing.
C16_Witness ==
  \E w \in Workers :
    /\ ~configured
    /\ pdfReader
    /\ req[w].pc = "done"
    /\ req[w].page = <<"1">>
    /\ req[w].extracted
    /\ req[w].resp = ErrorResp(500, "RuntimeError")
    /\ req[w].calls = 0

\* The scope a request works with is the one its selector names.
ScopeResolved(r) ==
  IF r.page = <<>> THEN r.isAll /\ r.key = AllKey
  ELSE /\ ~r.isAll
       /\ r.index = PyInt(r.page).v - 1
       /\ r.key = PyStr(PyInt(r.page).v)

\* The step in which a request that does not force a refresh stores its
\* glossary and is answered.
MissStore(w) ==
  /\ req[w].pc = "store"
  /\ req[w].refresh = <<>>
  /\ req'[w].pc = "done"
  /\ req'[w].resp.status = 200

\* The request v missed, generated and stored, and the entry of its key is
\* still what it stored.
JustStored(v) ==
  /\ req[v].pc = "done"
  /\ req[v].wrote
  /\ req[v].resp.status = 200
  /\ \E row \in EntryOf(cache, req[v]) : row.items_json = JsonDumps(req[v].resp.items)

\* C17: a request that finds no entry, gets a text that is not blank and a
\* reply from the configured service has called the extractor with the scope
\* of its selector and the service exactly once; its glossary is the entry of
\* (lecture_id, page_key) when it is answered, with cached = false; and a
\* request without refresh for the key that follows is answered cached = true
\* with the same items in the same order, without a call of the service.
C17_MissThenHit ==
  [][\A w \in Workers :
       /\ req'[w].pc \in {"generate", "store"} => ScopeResolved(req'[w])
       /\ MissStore(w) =>
            /\ req'[w].consulted
            /\ req'[w].extracted
            /\ req'[w].calls = 1
            /\ EntryOf(cache', req[w]) =
                 {Row(req[w].doc, req[w].key, JsonDumps(req[w].items), now')}
            /\ req'[w].resp = Resp(200, FALSE, req[w].items, -1, "")
       /\ \A v \in Workers \ {w} :
            /\ Arrives(w) /\ req'[w].consulted /\ JustStored(v)
            /\ req'[w].doc = req[v].doc /\ req'[w].key = req[v].key
            => /\ req'[w].pc = "done"
               /\ req'[w].resp.cached
               /\ req'[w].resp.items = req[v].resp.items
               /\ req'[w].calls = 0
               /\ ~req'[w].extracted]_vars

\* A request for page "1" missed, called the service once and stored; the next
\* one for the page was answered from the cache with the same items.
C17_Witness ==
  \E w, v \in Workers :
    /\ req[w].pc = "done" /\ req[v].pc = "done"
    /\ req[w].page = <<"1">> /\ req[v].page = <<"1">>
    /\ req[w].refresh = <<>> /\ req[v].refresh = <<>>
    /\ req[w].consulted /\ req[w].wrote /\ req[w].calls = 1
    /\ req[w].resp.status = 200 /\ ~req[w].resp.cached
    /\ req[v].resp.cached /\ req[v].calls = 0
    /\ req[v].resp.items = req[w].resp.items
    /\ ~req[w].prev.found

\* C18: the cache holds entries only of lectures that have a record: when a
\* lecture is deleted its entries go with it.
C18_EntriesDieWithLecture ==
  \A row \in cache : row.lecture_id \in files

\* The list of the one item whose term marks a reply that was not read.
IsDegraded(items) ==
  /\ IsList(items)
  /\ Len(items.kids) = 1
  /\ items.kids[1].t = "obj"
  /\ \E i \in 1..Len(items.kids[1].kids) :
       items.kids[1].kids[i] = JPair(KeyTerm, JStr(FailTerm))

\* The step in which a request stores the degraded item and is answered.
DegradedStore(w) ==
  /\ req[w].pc = "store"
  /\ IsDegraded(req[w].items)
  /\ req'[w].pc = "done"
  /\ req'[w].resp.status = 200

\* The stored texts of the degraded items the replies of the model lead to.
DegradedPayloads == {JsonDumps(FallbackItems(text)) : text \in Replies}

\* The rows of a key that hold a degraded item.
DegradedRows(table, d, key) ==
  {row \in RowsOf(table, d, key) : row.items_json \in DegradedPayloads}

\* The entry of the key is no longer the degraded item it was.
DegradedGone(k) ==
  /\ DegradedRows(cache, k[1], k[2]) # {}
  /\ DegradedRows(cache', k[1], k[2]) = {}

\* The degraded item is stored like a parsed list, and a request without
\* refresh that finds it is answered with it from the cache.
DegradedServed(w) ==
  /\ DegradedStore(w) =>
       /\ EntryOf(cache', req[w]) =
            {Row(req[w].doc, req[w].key, JsonDumps(req[w].items), now')}
       /\ req'[w].resp = Resp(200, FALSE, req[w].items, -1, "")
  /\ /\ Arrives(w) /\ req'[w].consulted
     /\ DegradedRows(cache, req'[w].doc, req'[w].key) # {}
     => /\ req'[w].pc = "done"
        /\ req'[w].resp.status = 200
        /\ req'[w].resp.cached
        /\ IsDegraded(req'[w].resp.items)
        /\ \A row \in EntryOf(cache, req'[w]) :
             JsonDumps(req'[w].resp.items) = row.items_json
        /\ ~req'[w].invoked
        /\ req'[w].calls = 0
        /\ cache' = cache

\* C20, as claimed: the degraded item is stored like any other result, every
\* request without refresh that finds it is answered with it, cached = true
\* and no service call, and it stays the key's entry until a request that
\* forces a refresh stores its result.
C20_DegradedCached ==
  [][/\ \A w \in Workers : DegradedServed(w)
     /\ \A k \in Keys :
          DegradedGone(k) =>
            \E v \in Workers :
              RefreshStore(v) /\ <<req[v].doc, req[v].key>> = k]_vars

\* C20, amended: as above, the degraded item staying the key's entry until a
\* request that forces a refresh stores its result provided no request for the
\* key began while another one for it was being served.
C20_DegradedCachedInTurn ==
  [][/\ \A w \in Workers : DegradedServed(w)
     /\ \A k \in Keys :
          DegradedGone(k) /\ ~hist'[k].overlap =>
            \E v \in Workers :
              RefreshStore(v) /\ <<req[v].doc, req[v].key>> = k]_vars

\* A reply that could not be read was stored as the degraded item, and the
\* next request for the key, without refresh, was answered with that item from
\* the cache.
C20_Witness ==
  \E w, v \in Workers :
    /\ req[w].pc = "done" /\ req[v].pc = "done"
    /\ req[w].wrote /\ req[w].calls = 1
    /\ IsDegraded(req[w].resp.items)
    /\ req[v].doc = req[w].doc /\ req[v].key = req[w].key
    /\ req[v].refresh = <<>>
    /\ req[v].resp.cached
    /\ req[v].resp.items = req[w].resp.items
    /\ req[v].calls = 0
    /\ DegradedRows(cache, req[w].doc, req[w].key) # {}

\* ------------------------------------------------------------ parser properties
\* Tier 1 of the parser as specified: the trimmed reply read as JSON.
DirectParse(text) == JsonLoads(Strip(text))

\* Tier 2 as specified: the trimmed contents of the first fenced block.
FencedParse(text) ==
  IF FenceMatch(text).found THEN JsonLoads(Strip(FenceMatch(text).group))
  ELSE DecodeError

\* Tier 3 as specified: the first "[" to the last "]" of the whole reply.
BracketParse(text) ==
  IF BracketMatch(text).found THEN JsonLoads(BracketMatch(text).group)
  ELSE DecodeError

YieldsArray(d) == d.st = "ok" /\ IsList(d.val)

\* C8: a reply whose trimmed text is a JSON array is answered with exactly that
\* array, whatever fence markers or brackets it holds besides.
C8_DirectParseFirst ==
  pOut # NotRun /\ YieldsArray(DirectParse(pText))
    => pOut = Returned(DirectParse(pText).val)

\* C9: when neither the trimmed reply nor its fenced block is a JSON array and
\* the span from the first "[" to the last "]" of the whole reply is one, the
\* parser returns that array (stated for the replies the parser returns on).
C9_BracketScan ==
  /\ pOut # NotRun
  /\ pOut.exc = ""
  /\ ~YieldsArray(DirectParse(pText))
  /\ ~YieldsArray(FencedParse(pText))
  /\ YieldsArray(BracketParse(pText))
  => pOut = Returned(BracketParse(pText).val)

\* The degraded result as specified: one item, whose context is the first 500
\* characters of the raw reply.
DegradedItems(text) ==
  JArr(<<JObj(<<JPair(KeyTerm, JStr(FailTerm)),
                JPair(KeyDefinition, JStr(FailDefinition)),
                JPair(KeyContext, JStr(Take(text, ContextLimit)))>>)>>)

\* C10: the parser returns on every reply, and when no tier yields an array it
\* returns the one degraded item with the first 500 characters of the raw reply.
C10_TotalWithFallback ==
  pOut # NotRun =>
    /\ pOut.exc = ""
    /\ (/\ ~YieldsArray(DirectParse(pText))
        /\ ~YieldsArray(FencedParse(pText))
        /\ ~YieldsArray(BracketParse(pText)))
         => pOut.items = DegradedItems(pText)

\* The object has the field, with a string as its value.
HasField(item, key) ==
  \E i \in 1..Len(item.kids) : item.kids[i].s = key /\ item.kids[i].kids[1].t = "str"

\* C14: every object in a list the generation returns has the three fields
\* term, definition and context (a field the reply leaves out being there with
\* the empty string).
C14_ItemShape ==
  pOut # NotRun /\ pOut.exc = "" =>
    \A i \in 1..Len(pOut.items.kids) :
      pOut.items.kids[i].t = "obj" =>
        /\ HasField(pOut.items.kids[i], KeyTerm)
        /\ HasField(pOut.items.kids[i], KeyDefinition)
        /\ HasField(pOut.items.kids[i], KeyContext)

\* ------------------------------------------------------------ cache read specification
\* The table holds one row, whose items_json is any text: what the
\* application wrote, or what became of it in the database file.
StoredRows == {Row("d1", AllKey, payload, ts) : payload \in ParserInputs, ts \in 0..MaxClock}

InitCacheRead ==
  /\ files = DocIds
  /\ onDisk = DocIds
  /\ cache \in {{row} : row \in StoredRows}
  /\ now = 0
  /\ configured = TRUE
  /\ pdfReader = TRUE
  /\ req = [w \in Workers |-> Idle]
  /\ started = [total |-> 0, refresh |-> FALSE, genSeq |-> 0]
  /\ hist = InitHist
  /\ pText = <<>>
  /\ pOut = NotRun

\* get_glossary_cache(lecture_id, page_key) for the key k.
ReadCache(k) ==
  /\ pOut = NotRun
  /\ pText' = k
  /\ pOut' = GetGlossaryCache(cache, "d1", k)
  /\ UNCHANGED <<files, onDisk, cache, now, configured, pdfReader, req, started, hist>>

NextCacheRead == \E k \in {AllKey, <<"1">>} : ReadCache(k)

SpecCacheRead == InitCacheRead /\ [][NextCacheRead]_vars

\* C15: reading an entry whose stored items are no well-formed JSON does not
\* fail and does not report the entry absent: it returns the empty list and the
\* stored timestamp.
C15_CorruptedPayload ==
  pOut # NotRun /\ pText = AllKey =>
    \A row \in cache :
      JsonLoads(row.items_json).st # "ok" =>
        /\ pOut.exc = ""
        /\ pOut.found
        /\ pOut.items = JArr(<<>>)
        /\ pOut.updated_at = row.updated_at

\* ------------------------------------------------------------ prompt specification
\* Extracted texts: short ones, and ones of about the length the prompt is cut
\* at, ending in characters that tell the positions apart.
ExtractedTexts ==
  {<<"a">>, <<"a", "b", "c">>} \cup
  {Pad(n) \o tail : n \in (PromptLimit - MaxExtra)..(PromptLimit + MaxExtra),
                    tail \in {<<>>, <<"b">>, <<"b", "c">>}}

InitPrompt ==
  /\ files = DocIds
  /\ onDisk = DocIds
  /\ cache = {}
  /\ now = 0
  /\ configured \in BOOLEAN
  /\ pdfReader = TRUE
  /\ req = [w \in Workers |-> Idle]
  /\ started = [total |-> 0, refresh |-> FALSE, genSeq |-> 0]
  /\ hist = InitHist
  /\ pText \in ExtractedTexts
  /\ pOut = NotRun

\* _generate_glossary(content), the service answering with `outcome`.
RunGenerate(outcome) ==
  /\ pOut = NotRun
  /\ pOut' = GenerateGlossary(pText, configured, outcome)
  /\ UNCHANGED <<files, onDisk, cache, now, configured, pdfReader, req, started, hist,
                 pText>>

NextPrompt == \E outcome \in ServiceOutcomes : RunGenerate(outcome)

SpecPrompt == InitPrompt /\ [][NextPrompt]_vars

\* C19: the text sent to the configured service is the first 12000 characters
\* of the extracted text, all of it when it is shorter, and the call is made
\* whatever the length: a long text is not turned down.
C19_SilentTruncation ==
  pOut # NotRun /\ configured =>
    /\ pOut.invoked
    /\ pOut.exc # "RuntimeError"
    /\ Len(pOut.sent) = IF Len(pText) > 12000 THEN 12000 ELSE Len(pText)
    /\ \A i \in 1..Len(pOut.sent) : pOut.sent[i] = pText[i]

\* A text of 12001 characters was sent cut to 12000, and the service's reply
\* was returned.
C19_Witness ==
  /\ pOut # NotRun
  /\ Len(pText) = 12001
  /\ pText[12000] = "b"
  /\ pOut.invoked
  /\ Len(pOut.sent) = 12000
  /\ pOut.exc = ""

\* ------------------------------------------------------------ page key specification
\* Selectors that spell one page number in several ways, and one that names a
\* page the document does not have.
AliasParams == {<<"0", "1">>, <<"+", "1">>, <<"0", "3">>}

\* The entry of the first page of a lecture that was deleted: the table keeps
\* it (delete_pdf_record leaves the cache table alone).
OtherRow == Row("d0", <<"1">>, JsonDumps(EarlierItems), 0)

\* The application with PyPDF2 installed and the service configured, its cache
\* table holding the deleted lecture's entry and, or not, what an earlier run
\* stored for the whole document.
InitKeys ==
  /\ files = DocIds
  /\ onDisk = DocIds
  /\ cache \in {{OtherRow}, {OtherRow, EarlierRow}}
  /\ now = 0
  /\ configured = TRUE
  /\ pdfReader = TRUE
  /\ req = [w \in Workers |-> Idle]
  /\ started = [total |-> 0, refresh |-> FALSE,
                genSeq |-> IF EarlierRow \in cache THEN 1 ELSE 0]
  /\ hist = IF EarlierRow \in cache THEN EarlierHist ELSE InitHist
  /\ pText = <<>>
  /\ pOut = NotRun

NextKeys ==
  \/ \E w \in Workers, d \in DocIds, p \in AliasParams, f \in RefreshParams :
       Begin(w, d, p, f)
  \/ \E w \in Workers, outcome \in ServiceOutcomes : Generate(w, outcome)
  \/ \E w \in Workers, ts \in 0..MaxClock : Store(w, ts)
  \/ \E w \in Workers : StoreFails(w)
  \/ \E d \in DocIds : RemoveFile(d)
  \/ \E d \in DocIds : DeletePdfRecord(d)

SpecKeys == InitKeys /\ [][NextKeys]_vars

\* The decimal text, without sign, leading zero or blank, of a page number of
\* the document.
IsCanonicalPage(key, d) ==
  /\ key # <<>>
  /\ \A i \in 1..Len(key) : key[i] \in DigitSet
  /\ key[1] # "0"
  /\ DigitsToNat(key) \in 1..Len(PagesOf(d))

\* The requests ask for the same page of the same document.
SamePage(r, s) ==
  /\ r.doc = s.doc
  /\ PyInt(r.page).ok /\ PyInt(s.page).ok
  /\ PyInt(r.page).v = PyInt(s.page).v

\* C21: the page_key of every stored entry is "all" or the canonical decimal
\* text of one of the document's page numbers; requests whose selectors denote
\* one page number work on one key, which has at most one entry, and a request
\* answered from the cache got what that entry held.
C21_KeyDomain ==
  /\ \A row \in cache :
       row.page_key = AllKey \/ IsCanonicalPage(row.page_key, row.lecture_id)
  /\ \A row \in cache :
       Cardinality(RowsOf(cache, row.lecture_id, row.page_key)) = 1
  /\ \A w, v \in Workers :
       /\ req[w].pc \in {"generate", "store"} \/ req[w].resp.status = 200
       /\ req[v].pc \in {"generate", "store"} \/ req[v].resp.status = 200
       /\ SamePage(req[w], req[v])
       => /\ req[w].key = req[v].key
          /\ req[w].pc = "done" => IsCanonicalPage(req[w].key, req[w].doc)
          /\ req[w].wrote /\ req[v].resp.cached
             => \E row \in hist[<<req[w].doc, req[w].key>>].puts :
                  /\ row.items_json = JsonDumps(req[v].resp.items)
                  /\ row.updated_at = req[v].resp.updated_at

\* The glossary a request for page "+1" stored was read by a request for page
\* "01": the table holds one entry for the page, under the key "1".
C21_Witness ==
  \E w, v \in Workers :
    /\ req[w].pc = "done" /\ req[w].page = <<"+", "1">> /\ req[w].wrote
    /\ req[v].pc = "done" /\ req[v].page = <<"0", "1">> /\ req[v].resp.cached
    /\ req[v].resp.items = req[w].resp.items
    /\ cache \ {EarlierRow, OtherRow} = {Row("d1", <<"1">>, JsonDumps(req[w].resp.items), now)}

\* The entries of every pair but the request's own.
OtherEntries(table, r) ==
  {row \in table : <<row.lecture_id, row.page_key>> # <<r.doc, r.key>>}

\* C22: whatever step a request for (lecture_id, page_key) takes, arriving and
\* being rejected or answered from the cache, extracting and generating,
\* storing or failing, the entries of every other pair stay as they are.
C22_KeyIsolation ==
  [][\A w \in Workers :
       req'[w] # req[w] => OtherEntries(cache', req'[w]) = OtherEntries(cache, req'[w])]_vars

\* A forced refresh of page "1" replaced the page's entry; the entry of the
\* whole document and the entry of the other lecture's first page are what
\* they were.
C22_Witness ==
  \E w \in Workers :
    /\ req[w].pc = "done"
    /\ req[w].refresh # <<>>
    /\ req[w].key = <<"1">>
    /\ req[w].wrote
    /\ req[w].prev.found
    /\ req[w].prev.items # req[w].resp.items
    /\ EarlierRow \in cache
    /\ OtherRow \in cache
    /\ Cardinality(cache) = 3

====
